---- MODULE Spec2Model ----
(***************************************************************************)
(* Easier68k: the CMP and CMPI opcodes (core/opcodes/cmp.py, cmpi.py).     *)
(* Encoding, decoding, static length and execution against the simulator.  *)
(***************************************************************************)
EXTENDS Integers, Sequences, FiniteSets, TLC

(***************************************************************************)
(* Python integers are unbounded; TLC's are 32-bit.  An integer n is kept  *)
(* as the pair hi, lo with n = hi * 65536 + lo and 0 <= lo < 65536, which  *)
(* is n's two's complement form cut after bit 15, so that the 33-bit       *)
(* differences and the masks up to 0x80000000 of the code are exact.       *)
(***************************************************************************)
Big(n) == [hi |-> n \div 65536, lo |-> n % 65536]

BigHL(h, l) == [hi |-> h, lo |-> l]

BigSub(a, b) ==
    LET d == a.lo - b.lo
    IN  [hi |-> a.hi - b.hi - (IF d < 0 THEN 1 ELSE 0), lo |-> d % 65536]

BigIsNeg(a) == a.hi < 0

BigIsZero(a) == a.hi = 0 /\ a.lo = 0

BigIsPos(a) == a.hi > 0 \/ (a.hi = 0 /\ a.lo > 0)

\* x & (1 << k) > 0 in Python, for 0 <= k <= 31 (two's complement for x < 0)
BigBit(a, k) ==
    IF k < 16 THEN (a.lo \div (2 ^ k)) % 2 = 1
    ELSE ((a.hi % 65536) \div (2 ^ (k - 16))) % 2 = 1

\* 1 << (8 * n) for n in {1, 2, 4}
BigPow8(n) == IF n = 4 THEN BigHL(65536, 0) ELSE IF n = 2 THEN BigHL(1, 0) ELSE BigHL(0, 256)

(***************************************************************************)
(* OpSize, EAMode, MemoryValue, AssemblyParameter                          *)
(***************************************************************************)
BYTE == 1
WORD == 2
LONG == 4

valid_sizes == {BYTE, WORD, LONG}

get_number_of_bytes(size) == size

EAModes == {"DRD", "ARD", "ARI", "ARIPI", "ARIPD", "IMM", "AWA", "ALA"}

\* the low `size` bytes of an integer
mask_value_for_length(size, v) ==
    IF size = LONG THEN BigHL(v.hi % 65536, v.lo)
    ELSE IF size = WORD THEN BigHL(0, v.lo)
    ELSE BigHL(0, v.lo % 256)

MemoryValue(size, v) == [length |-> size, value |-> mask_value_for_length(size, v)]

get_value_unsigned(mv) == mv.value

get_negative(mv) == BigBit(mv.value, 8 * mv.length - 1)

get_value_signed(mv) ==
    IF get_negative(mv) THEN BigSub(mv.value, BigPow8(mv.length)) ELSE mv.value

\* MemoryValue.__sub__: the difference masked to the width of the left operand
MemoryValue_sub(a, b) == MemoryValue(a.length, BigSub(a.value, b.value))

\* MemoryValue.__gt__: unsigned order
MemoryValue_gt(a, b) == BigIsPos(BigSub(a.value, b.value))

\* big-endian bytes of a MemoryValue
get_value_bytearray(mv) ==
    LET v == mv.value
    IN  IF mv.length = LONG
        THEN <<v.hi \div 256, v.hi % 256, v.lo \div 256, v.lo % 256>>
        ELSE IF mv.length = WORD THEN <<v.lo \div 256, v.lo % 256>>
        ELSE <<v.lo % 256>>

\* int.from_bytes(b, 'big') for at most four bytes (an empty slice gives 0)
int_from_bytes(b) ==
    LET n == Len(b)
        at(i) == IF i >= 1 THEN b[i] ELSE 0
    IN  BigHL(at(n - 3) * 256 + at(n - 2), at(n - 1) * 256 + (IF n >= 1 THEN b[n] ELSE 0))

\* a Python slice b[from:to] with 0-based bounds, cut at the end of b
Slice(b, from, to) ==
    LET hi == IF to < Len(b) THEN to ELSE Len(b)
    IN  IF from >= hi THEN <<>> ELSE [i \in 1..(hi - from) |-> b[from + i]]

AssemblyParameter(mode, payload) == [mode |-> mode, data |-> payload]

NoParam == AssemblyParameter("none", Big(0))

\* the three results of a constructor or a decoder: an instruction object,
\* None (no result), or an exception (a failed assert)
Instruction(cls, src, dest, size) == [cls |-> cls, src |-> src, dest |-> dest, size |-> size]

None == Instruction("None", NoParam, NoParam, 0)

Error == Instruction("Error", NoParam, NoParam, 0)

IsInstruction(o) == o.cls \in {"Cmp", "Cmpi"}

(***************************************************************************)
(* Bit fields of the opcode word and the effective-address field           *)
(***************************************************************************)
\* split_bits(word, [a, b, ...]): the fields of a 16-bit word, high bits first;
\* Field(word, low, width) is the field of `width` bits whose lowest bit is `low`
Field(word, low, width) == (word \div (2 ^ low)) % (2 ^ width)

split_bits(word, widths) ==
    LET RECURSIVE lowOf(_)
        lowOf(i) == IF i = Len(widths) THEN 0 ELSE widths[i + 1] + lowOf(i + 1)
    IN  [i \in 1..Len(widths) |-> Field(word, lowOf(i), widths[i])]

ModeBits(mode) ==
    CASE mode = "DRD" -> 0
      [] mode = "ARD" -> 1
      [] mode = "ARI" -> 2
      [] mode = "ARIPI" -> 3
      [] mode = "ARIPD" -> 4
      [] OTHER -> 7

\* the six addressing bits of an operand, mode bits before register bits
parse_from_ea_mode_modefirst(p) ==
    CASE p.mode = "AWA" -> 7 * 8 + 0
      [] p.mode = "ALA" -> 7 * 8 + 1
      [] p.mode = "IMM" -> 7 * 8 + 4
      [] OTHER -> ModeBits(p.mode) * 8 + p.data.lo

\* the extension words of an operand: a byte or word immediate and an
\* absolute-short address take one word, a long immediate and an
\* absolute-long address two
ea_to_binary_post_op(p, size) ==
    CASE p.mode = "IMM" -> MemoryValue(IF size = LONG THEN LONG ELSE WORD, p.data)
      [] p.mode = "AWA" -> MemoryValue(WORD, p.data)
      [] p.mode = "ALA" -> MemoryValue(LONG, p.data)

\* the operand an addressing field names, its extension words read from the
\* start of `data`; <<operand, words used>>.  A field that names no supported
\* mode, or data too short for the extension words, raises: the operand's
\* mode is then "Error"
parse_ea_from_binary(mode, register, size, is_source, data) ==
    LET bad == <<AssemblyParameter("Error", Big(0)), 0>>
        ext(m, n) == IF Len(data) < n THEN bad
                     ELSE <<AssemblyParameter(m, int_from_bytes(Slice(data, 0, n))), n \div 2>>
    IN  CASE mode = 0 -> <<AssemblyParameter("DRD", Big(register)), 0>>
          [] mode = 1 -> <<AssemblyParameter("ARD", Big(register)), 0>>
          [] mode = 2 -> <<AssemblyParameter("ARI", Big(register)), 0>>
          [] mode = 3 -> <<AssemblyParameter("ARIPI", Big(register)), 0>>
          [] mode = 4 -> <<AssemblyParameter("ARIPD", Big(register)), 0>>
          [] mode = 7 /\ register = 0 -> ext("AWA", 2)
          [] mode = 7 /\ register = 1 -> ext("ALA", 4)
          [] mode = 7 /\ register = 4 -> ext("IMM", IF size = LONG THEN 4 ELSE 2)
          [] OTHER -> bad

\* OpSize.parse: the size a mnemonic's suffix names
OpSize_parse(suffix) ==
    CASE suffix = "B" -> BYTE
      [] suffix = "W" -> WORD
      [] suffix = "L" -> LONG

(***************************************************************************)
(* Cmp                                                                     *)
(***************************************************************************)
\* Cmp.__init__: the asserts, then the fields
Cmp_init(params, size) ==
    IF /\ Len(params) = 2
       /\ params[2].mode = "DRD"
       /\ size \in valid_sizes
    THEN Instruction("Cmp", params[1], params[2], size)
    ELSE Error

Cmp_assemble(self) ==
    LET ret_opcode == 11 * 4096
                      + self.dest.data.lo * 512
                      + (CASE self.size = BYTE -> 0
                           [] self.size = WORD -> 1 * 64
                           [] self.size = LONG -> 2 * 64)
                      + parse_from_ea_mode_modefirst(self.src)
    IN  <<ret_opcode \div 256, ret_opcode % 256>>

Cmp_disassemble_instruction(data) ==
    IF Len(data) < 2 THEN Error
    ELSE
    LET first_word == data[1] * 256 + data[2]
        f == split_bits(first_word, <<4, 3, 3, 3, 3>>)
        opcode_bin == f[1]
        register_bin == f[2]
        opmode_bin == f[3]
        ea_mode_bin == f[4]
        ea_reg_bin == f[5]
        words_used == 1
        size == CASE opmode_bin = 0 -> BYTE
                  [] opcode_bin = 1 -> WORD
                  [] opcode_bin = 2 -> LONG
                  [] OTHER -> 0
    IN  IF opcode_bin # 11 THEN None
        ELSE IF size = 0 THEN None
        ELSE LET src == parse_ea_from_binary(ea_mode_bin, ea_reg_bin, size, TRUE,
                                             Slice(data, words_used * 2, Len(data)))[1]
                 dest == AssemblyParameter("DRD", Big(register_bin))
             IN  IF src.mode = "Error" THEN Error ELSE Cmp_init(<<src, dest>>, size)

\* Cmp.get_word_length(command, parameters): `command` is the mnemonic split
\* at its dots (<<"CMP">>, <<"CMP", "L">>), `parameters` the operands the
\* text names, in order, as parse_assembly_parameter returns them
Cmp_get_word_length(command, parameters) ==
    LET parts == command
        size == IF Len(parts) = 1 THEN WORD ELSE OpSize_parse(parts[2])
        src == parameters[1]
        dest == parameters[2]
    IN  1 + (IF src.mode = "IMM" THEN (IF size = LONG THEN 2 ELSE 1) ELSE 0)
          + (IF src.mode = "AWA" THEN 1 ELSE 0)
          + (IF src.mode = "ALA" THEN 2 ELSE 0)

(***************************************************************************)
(* Cmpi                                                                    *)
(***************************************************************************)
\* Cmpi.__init__ without the assert on the destination's mode
Cmpi_init_any_destination(params, size) ==
    IF /\ Len(params) = 2
       /\ params[1].mode = "IMM"
       /\ size \in valid_sizes
    THEN Instruction("Cmpi", params[1], params[2], size)
    ELSE Error

\* Cmpi.__init__: the asserts, then the fields
Cmpi_init(params, size) ==
    IF /\ Len(params) = 2
       /\ params[1].mode = "IMM"
       /\ params[2].mode # "ARD" /\ params[2].mode # "IMM"
       /\ size \in valid_sizes
    THEN Instruction("Cmpi", params[1], params[2], size)
    ELSE Error

Cmpi_assemble(self) ==
    LET ret_opcode == 12 * 256
                      + (CASE self.size = BYTE -> 0
                           [] self.size = WORD -> 1 * 64
                           [] self.size = LONG -> 2 * 64)
                      + parse_from_ea_mode_modefirst(self.dest)
        ret_bytes == <<ret_opcode \div 256, ret_opcode % 256>>
        with_src == ret_bytes \o get_value_bytearray(ea_to_binary_post_op(self.src, self.size))
    IN  IF self.dest.mode = "IMM" \/ self.dest.mode = "AWA" \/ self.dest.mode = "ALA"
        THEN with_src \o get_value_bytearray(ea_to_binary_post_op(self.dest, self.size))
        ELSE with_src

Cmpi_disassemble_instruction(data) ==
    IF Len(data) < 2 THEN Error
    ELSE
    LET first_word == data[1] * 256 + data[2]
        f == split_bits(first_word, <<8, 2, 3, 3>>)
        opcode_bin == f[1]
        size_bin == f[2]
        ea_mode_binary == f[3]
        ea_reg_bin == f[4]
        words_used == 1
        size == CASE size_bin = 0 -> BYTE
                  [] size_bin = 1 -> WORD
                  [] size_bin = 2 -> LONG
                  [] OTHER -> 0
    IN  IF opcode_bin # 12 THEN None
        ELSE IF size = 0 THEN None
        ELSE LET src_size == IF size = LONG THEN 4 ELSE 2
                 src_value == int_from_bytes(Slice(data, 2, 2 + src_size))
                 src == AssemblyParameter("IMM", src_value)
                 dest == parse_ea_from_binary(ea_mode_binary, ea_reg_bin, size, TRUE,
                                              Slice(data, words_used * 2, Len(data)))[1]
             IN  IF dest.mode = "Error" THEN Error ELSE Cmpi_init(<<src, dest>>, size)

Cmpi_get_word_length(command, parameters) ==
    LET parts == command
        size == IF Len(parts) = 1 THEN WORD ELSE OpSize_parse(parts[2])
        src == parameters[1]
        dest == parameters[2]
    IN  (IF size = LONG THEN 3 ELSE 2)
          + (IF dest.mode = "AWA" THEN 1 ELSE 0)
          + (IF dest.mode = "ALA" THEN 2 ELSE 0)

(***************************************************************************)
(* The simulator (M68K) and the state of a session                         *)
(***************************************************************************)
\* the highest address of the modelled memory
MemTop == 3

\* the program counter up to which instructions are executed
MaxPC == 10

VARIABLES
    D,      \* data registers D0..D7, 32 bits each
    A,      \* address registers A0..A7, 32 bits each
    mem,    \* memory, a byte per address
    pc,     \* program counter
    ccr,    \* condition code register: X, N, Z, V, C
    op,     \* the instruction object at hand (None before the first)
    stage,  \* what was done last with it
    data,   \* bytes: the result of assemble, or the input of a decoder
    dis,    \* the result of disassemble_instruction
    out,    \* dis.assemble()
    wlen    \* the result of get_word_length (0 before it)

machine == <<D, A, mem, pc, ccr>>
codec == <<data, dis, out, wlen>>
vars == <<D, A, mem, pc, ccr, op, stage, data, dis, out, wlen>>

ConditionStatusCode == {"X", "N", "Z", "V", "C"}

set_condition_status_code(c, code, value) == [c EXCEPT ![code] = value]

increment_program_counter(p, n) == p + n

\* Memory.get: `n` bytes at `addr`, big-endian
memory_get(n, addr) == MemoryValue(n, int_from_bytes([i \in 1..n |-> mem[addr + i - 1]]))

\* what post-increment and pre-decrement move an address register by
\* (a byte access through the stack pointer A7 moves it by 2)
StepOf(p, n) == IF n = 1 /\ p.data.lo = 7 THEN 2 ELSE n

\* the address registers after the operand `p` was resolved
ResolvedA(p, n, AA) ==
    CASE p.mode = "ARIPI" ->
            [AA EXCEPT ![p.data.lo] = mask_value_for_length(LONG, BigSub(@, Big(0 - StepOf(p, n))))]
      [] p.mode = "ARIPD" ->
            [AA EXCEPT ![p.data.lo] = mask_value_for_length(LONG, BigSub(@, Big(StepOf(p, n))))]
      [] OTHER -> AA

\* the address a memory operand is read at
AddressOf(p, n, AA) ==
    CASE p.mode = "ARI" -> AA[p.data.lo]
      [] p.mode = "ARIPI" -> AA[p.data.lo]
      [] p.mode = "ARIPD" -> ResolvedA(p, n, AA)[p.data.lo]
      [] OTHER -> p.data

IsMemoryMode(p) == p.mode \in {"ARI", "ARIPI", "ARIPD", "AWA", "ALA"}

\* the operand's address lies in the modelled memory
Resolvable(p, n, AA) ==
    IsMemoryMode(p) =>
        /\ AddressOf(p, n, AA).hi = 0
        /\ AddressOf(p, n, AA).lo + n - 1 <= MemTop
        /\ (p.mode = "ARIPD" => AA[p.data.lo].hi = 0 /\ AA[p.data.lo].lo >= StepOf(p, n))

\* AssemblyParameter.get_value(simulator, length): the operand's value, `n`
\* bytes wide, with the address registers as `AA` when it is resolved
get_value(p, n, AA) ==
    CASE p.mode = "IMM" -> MemoryValue(n, p.data)
      [] p.mode = "DRD" -> MemoryValue(n, D[p.data.lo])
      [] p.mode = "ARD" -> MemoryValue(n, AA[p.data.lo])
      [] OTHER -> memory_get(n, AddressOf(p, n, AA).lo)

(***************************************************************************)
(* execute                                                                 *)
(***************************************************************************)
\* Cmp.execute, the condition codes: `c` is the register before
Cmp_execute_ccr(self, src_val, dest_val, c) ==
    LET comparision == BigSub(get_value_signed(src_val), get_value_signed(dest_val))
        comp_mv == MemoryValue_sub(src_val, dest_val)
        overflow == /\ get_negative(src_val) = get_negative(dest_val)
                    /\ get_negative(src_val) # get_negative(comp_mv)
        c1 == set_condition_status_code(c, "N", BigIsNeg(comparision))
        c2 == set_condition_status_code(c1, "Z", BigIsZero(comparision))
        c3 == set_condition_status_code(c2, "V", overflow)
    IN  set_condition_status_code(c3, "C", MemoryValue_gt(src_val, dest_val))

\* Cmp.execute, the bytes the program counter moves by
Cmp_execute_to_increment(self) ==
    WORD + (IF self.src.mode = "ALA" THEN LONG ELSE 0)
         + (IF self.src.mode = "AWA" THEN WORD ELSE 0)

\* Cmpi.execute with the borrow taken from the signed difference
Cmpi_execute_ccr_signed_carry(self, src_val, dest_val, c) ==
    LET comparison == BigSub(get_value_signed(dest_val), get_value_signed(src_val))
        raw_total == BigSub(get_value_unsigned(dest_val), get_value_unsigned(src_val))
        negative == CASE self.size = BYTE -> BigBit(comparison, 7)
                      [] self.size = WORD -> BigBit(comparison, 15)
                      [] self.size = LONG -> BigBit(comparison, 31)
        overflow == /\ get_negative(src_val) = FALSE
                    /\ get_negative(dest_val) = TRUE
                    /\ BigIsPos(raw_total) /\ BigBit(raw_total, 31)
        c1 == set_condition_status_code(c, "N", negative)
        c2 == set_condition_status_code(c1, "Z", BigIsZero(comparison))
        c3 == set_condition_status_code(c2, "V", overflow)
    IN  set_condition_status_code(c3, "C", BigIsNeg(comparison))

\* Cmpi.execute copying the borrow into Extend, as a subtraction does
Cmpi_execute_ccr_sets_extend(self, src_val, dest_val, c) ==
    LET comparison == BigSub(get_value_signed(dest_val), get_value_signed(src_val))
        raw_total == BigSub(get_value_unsigned(dest_val), get_value_unsigned(src_val))
        negative == CASE self.size = BYTE -> BigBit(comparison, 7)
                      [] self.size = WORD -> BigBit(comparison, 15)
                      [] self.size = LONG -> BigBit(comparison, 31)
        overflow == /\ get_negative(src_val) = FALSE
                    /\ get_negative(dest_val) = TRUE
                    /\ BigIsPos(raw_total) /\ BigBit(raw_total, 31)
        c1 == set_condition_status_code(c, "N", negative)
        c2 == set_condition_status_code(c1, "Z", BigIsZero(comparison))
        c3 == set_condition_status_code(c2, "V", overflow)
        c4 == set_condition_status_code(c3, "C", BigIsNeg(raw_total))
    IN  set_condition_status_code(c4, "X", BigIsNeg(raw_total))

\* Cmpi.execute setting Overflow only when it is raised, never clearing it
Cmpi_execute_ccr_sticky_overflow(self, src_val, dest_val, c) ==
    LET comparison == BigSub(get_value_signed(dest_val), get_value_signed(src_val))
        raw_total == BigSub(get_value_unsigned(dest_val), get_value_unsigned(src_val))
        negative == CASE self.size = BYTE -> BigBit(comparison, 7)
                      [] self.size = WORD -> BigBit(comparison, 15)
                      [] self.size = LONG -> BigBit(comparison, 31)
        overflow == /\ get_negative(src_val) = FALSE
                    /\ get_negative(dest_val) = TRUE
                    /\ BigIsPos(raw_total) /\ BigBit(raw_total, 31)
        c1 == set_condition_status_code(c, "N", negative)
        c2 == set_condition_status_code(c1, "Z", BigIsZero(comparison))
        c3 == IF overflow THEN set_condition_status_code(c2, "V", TRUE) ELSE c2
    IN  set_condition_status_code(c3, "C", BigIsNeg(raw_total))

\* Cmpi.execute, the condition codes
Cmpi_execute_ccr(self, src_val, dest_val, c) ==
    LET comparison == BigSub(get_value_signed(dest_val), get_value_signed(src_val))
        raw_total == BigSub(get_value_unsigned(dest_val), get_value_unsigned(src_val))
        negative == CASE self.size = BYTE -> BigBit(comparison, 7)
                      [] self.size = WORD -> BigBit(comparison, 15)
                      [] self.size = LONG -> BigBit(comparison, 31)
        overflow == /\ get_negative(src_val) = FALSE
                    /\ get_negative(dest_val) = TRUE
                    /\ BigIsPos(raw_total) /\ BigBit(raw_total, 31)
        c1 == set_condition_status_code(c, "N", negative)
        c2 == set_condition_status_code(c1, "Z", BigIsZero(comparison))
        c3 == set_condition_status_code(c2, "V", overflow)
    IN  set_condition_status_code(c3, "C", BigIsNeg(raw_total))

\* Cmpi.execute counting one word for an immediate of any size
Cmpi_execute_to_increment_word_immediate(self) ==
    WORD + WORD
         + (IF self.dest.mode = "ALA" THEN LONG ELSE 0)
         + (IF self.dest.mode = "AWA" THEN WORD ELSE 0)

\* Cmpi.execute, the bytes the program counter moves by
Cmpi_execute_to_increment(self) ==
    WORD + (IF self.size = LONG THEN LONG ELSE WORD)
         + (IF self.dest.mode = "ALA" THEN LONG ELSE 0)
         + (IF self.dest.mode = "AWA" THEN WORD ELSE 0)

\* the source is resolved before the destination
CanExecute(self) ==
    LET n == get_number_of_bytes(self.size)
    IN  /\ Resolvable(self.src, n, A)
        /\ Resolvable(self.dest, n, ResolvedA(self.src, n, A))

\* Cmp.execute(simulator)
Cmp_execute(self) ==
    /\ self.cls = "Cmp"
    /\ CanExecute(self)
    /\ pc + Cmp_execute_to_increment(self) <= MaxPC
    /\ LET n == get_number_of_bytes(self.size)
           A1 == ResolvedA(self.src, n, A)
           src_val == get_value(self.src, n, A)
           dest_val == get_value(self.dest, n, A1)
       IN  /\ A' = ResolvedA(self.dest, n, A1)
           /\ ccr' = Cmp_execute_ccr(self, src_val, dest_val, ccr)
    /\ pc' = increment_program_counter(pc, Cmp_execute_to_increment(self))
    /\ op' = self
    /\ stage' = "executed"
    /\ UNCHANGED <<D, mem, codec>>

\* Cmpi.execute(simulator)
Cmpi_execute(self) ==
    /\ self.cls = "Cmpi"
    /\ CanExecute(self)
    /\ pc + Cmpi_execute_to_increment(self) <= MaxPC
    /\ LET n == get_number_of_bytes(self.size)
           A1 == ResolvedA(self.src, n, A)
           src_val == get_value(self.src, n, A)
           dest_val == get_value(self.dest, n, A1)
       IN  /\ A' = ResolvedA(self.dest, n, A1)
           /\ ccr' = Cmpi_execute_ccr(self, src_val, dest_val, ccr)
    /\ pc' = increment_program_counter(pc, Cmpi_execute_to_increment(self))
    /\ op' = self
    /\ stage' = "executed"
    /\ UNCHANGED <<D, mem, codec>>

(***************************************************************************)
(* A session of the simulator: registers, memory and flags are set, then   *)
(* instructions are constructed and executed one after the other; `op` is  *)
(* the instruction executed last                                           *)
(***************************************************************************)
\* register contents a session stores: 2, and 0xFFFFFFFC (-4 at every width)
RegisterValues == {Big(2), BigHL(65535, 65532)}

\* the register the executed instructions name
ExecRegisters == {1}

\* the long a session stores at address 0: 0xFC7D8002
MemoryValues == {BigHL(64637, 32770)}

\* immediates of the executed instructions
ExecImmediates == {Big(125), Big(256), Big(0 - 1)}

ExecSources ==
    {AssemblyParameter("DRD", Big(r)) : r \in ExecRegisters}
    \cup {AssemblyParameter(m, Big(0)) : m \in {"ARD", "ARI", "ARIPI", "ARIPD", "AWA", "ALA"}}
    \cup {AssemblyParameter("IMM", v) : v \in ExecImmediates}

ExecDestinations ==
    {AssemblyParameter("DRD", Big(r)) : r \in ExecRegisters}
    \cup {AssemblyParameter(m, Big(0)) : m \in {"ARI", "ARIPI", "ARIPD", "AWA", "ALA"}}

Zero8 == [r \in 0..7 |-> Big(0)]

Init ==
    /\ D = Zero8
    /\ A = Zero8
    /\ mem = [a \in 0..MemTop |-> 0]
    /\ pc = 0
    /\ ccr = [code \in ConditionStatusCode |-> FALSE]
    /\ op = None
    /\ stage = "idle"
    /\ data = <<>>
    /\ dis = None
    /\ out = <<>>
    /\ wlen = 0

\* M68K.set_register on a data register, before the first instruction
SetRegister ==
    /\ stage = "idle"
    /\ \E r \in ExecRegisters, v \in RegisterValues : D' = [D EXCEPT ![r] = v]
    /\ UNCHANGED <<A, mem, pc, ccr, op, stage, codec>>

\* Memory.set of a long at address 0, before the first instruction
SetMemory ==
    /\ stage = "idle"
    /\ \E v \in MemoryValues :
          mem' = [a \in 0..MemTop |->
                     IF a < 4 THEN get_value_bytearray(MemoryValue(LONG, v))[a + 1] ELSE mem[a]]
    /\ UNCHANGED <<D, A, pc, ccr, op, stage, codec>>

\* M68K.set_condition_status_code, before the first instruction
SetConditionCode ==
    /\ stage = "idle"
    /\ \E code \in ConditionStatusCode, b \in BOOLEAN :
          ccr' = set_condition_status_code(ccr, code, b)
    /\ UNCHANGED <<D, A, mem, pc, op, stage, codec>>

\* Cmp(params, size).execute(simulator) with legal operands
RunCmp ==
    /\ stage \in {"idle", "executed"}
    /\ \E src \in ExecSources, dest \in ExecDestinations, size \in valid_sizes :
          /\ Cmp_init(<<src, dest>>, size) # Error
          /\ Cmp_execute(Cmp_init(<<src, dest>>, size))

\* Cmpi(params, size).execute(simulator) with legal operands
RunCmpi ==
    /\ stage \in {"idle", "executed"}
    /\ \E src \in ExecSources, dest \in ExecDestinations, size \in valid_sizes :
          /\ Cmpi_init(<<src, dest>>, size) # Error
          /\ Cmpi_execute(Cmpi_init(<<src, dest>>, size))

Next ==
    \/ SetMemory
    \/ SetRegister
    \/ SetConditionCode
    \/ RunCmp
    \/ RunCmpi

Spec == Init /\ [][Next]_vars

(***************************************************************************)
(* The assembler and the disassembler: instructions are constructed,       *)
(* measured, assembled and disassembled; byte strings are disassembled and *)
(* assembled again                                                         *)
(***************************************************************************)
CodecRegisters == {1, 7}

\* immediates that fit every width: 123, 255
CodecImmediates == {Big(123), Big(255)}

\* absolute addresses: 0xAAAA, 0x0001AAAA
CodecOperands ==
    {AssemblyParameter(m, Big(r)) :
        m \in {"DRD", "ARD", "ARI", "ARIPI", "ARIPD"}, r \in CodecRegisters}
    \cup {AssemblyParameter("IMM", v) : v \in CodecImmediates}
    \cup {AssemblyParameter("AWA", Big(43690)), AssemblyParameter("ALA", BigHL(1, 43690))}

\* the mnemonics that name an instruction of a size: the suffix may be left
\* out for a word
CommandsOf(name, size) ==
    {<<name, sfx>> : sfx \in {x \in {"B", "W", "L"} : OpSize_parse(x) = size}}
    \cup (IF size = WORD THEN {<<name>>} ELSE {})

\* opcode words given to the decoders: CMPI words of every size code and
\* CMP words of several opmodes, each with several addressing fields, and
\* two words of other families
CodecFirstWords ==
    {12 * 256 + sz * 64 + ea : sz \in 0..3, ea \in {1, 9, 20, 28, 36, 40, 56, 57, 60}}
    \cup {11 * 4096 + r * 512 + om * 64 + ea :
             r \in {1, 7}, om \in {0, 1, 2, 3, 7}, ea \in {0, 20, 56, 57, 60}}
    \cup {0, 20113}

\* the words that follow: up to four of 0x0001, 0x0002, 0xFFFF
CodecTailWords == {<<0, 1>>, <<0, 2>>, <<255, 255>>}

RECURSIVE CodecTails(_)
CodecTails(k) ==
    IF k = 0 THEN {<<>>}
    ELSE LET shorter == CodecTails(k - 1)
         IN  shorter \cup {t \o w : t \in {x \in shorter : Len(x) = 2 * (k - 1)},
                                    w \in CodecTailWords}

MaxTailWords == 4

CodecInputs ==
    {<<w \div 256, w % 256>> \o t : w \in CodecFirstWords, t \in CodecTails(MaxTailWords)}
    \cup {<<>>, <<12>>, <<176>>}

\* the sizes a constructor is called with: the members of OpSize, and 0 for
\* a value that is none of them
ConstructSizes == valid_sizes \cup {0}

\* Cmp(params, size), Cmpi(params, size): an object, or a failed assert
Construct ==
    /\ stage = "idle"
    /\ \E cls \in {"Cmp", "Cmpi"}, src \in CodecOperands, dest \in CodecOperands,
          size \in ConstructSizes :
          op' = IF cls = "Cmp" THEN Cmp_init(<<src, dest>>, size)
                ELSE Cmpi_init(<<src, dest>>, size)
    /\ stage' = IF op' = Error THEN "failed" ELSE "constructed"
    /\ data' = <<>>
    /\ dis' = None
    /\ out' = <<>>
    /\ wlen' = 0
    /\ UNCHANGED machine

\* get_word_length(command, parameters) for the text of the instruction
GetWordLength ==
    /\ stage \in {"constructed", "assembled"}
    /\ \E command \in CommandsOf(op.cls, op.size) :
          wlen' = IF op.cls = "Cmp"
                  THEN Cmp_get_word_length(command, <<op.src, op.dest>>)
                  ELSE Cmpi_get_word_length(command, <<op.src, op.dest>>)
    /\ UNCHANGED <<machine, op, stage, data, dis, out>>

\* op.assemble()
Assemble ==
    /\ stage = "constructed"
    /\ data' = IF op.cls = "Cmp" THEN Cmp_assemble(op) ELSE Cmpi_assemble(op)
    /\ stage' = "assembled"
    /\ UNCHANGED <<machine, op, dis, out, wlen>>

\* disassemble_instruction of the class of `op` on the bytes of op.assemble()
Disassemble ==
    /\ stage = "assembled"
    /\ dis' = IF op.cls = "Cmp" THEN Cmp_disassemble_instruction(data)
              ELSE Cmpi_disassemble_instruction(data)
    /\ stage' = "disassembled"
    /\ UNCHANGED <<machine, op, data, out, wlen>>

\* bytes arrive from outside
LoadBytes ==
    /\ stage = "idle"
    /\ \E b \in CodecInputs : data' = b
    /\ op' = None
    /\ dis' = None
    /\ out' = <<>>
    /\ wlen' = 0
    /\ stage' = "loaded"
    /\ UNCHANGED machine

\* Cmp.disassemble_instruction(data)
DecodeCmp ==
    /\ stage = "loaded"
    /\ dis' = Cmp_disassemble_instruction(data)
    /\ stage' = "decoded"
    /\ UNCHANGED <<machine, op, data, out, wlen>>

\* Cmpi.disassemble_instruction(data)
DecodeCmpi ==
    /\ stage = "loaded"
    /\ dis' = Cmpi_disassemble_instruction(data)
    /\ stage' = "decoded"
    /\ UNCHANGED <<machine, op, data, out, wlen>>

\* result.assemble() on the instruction a decoder returned
Reassemble ==
    /\ stage = "decoded"
    /\ IsInstruction(dis)
    /\ out' = IF dis.cls = "Cmp" THEN Cmp_assemble(dis) ELSE Cmpi_assemble(dis)
    /\ stage' = "reassembled"
    /\ UNCHANGED <<machine, op, data, dis, wlen>>

NextCodec ==
    \/ Construct
    \/ GetWordLength
    \/ Assemble
    \/ Disassemble
    \/ LoadBytes
    \/ DecodeCmp
    \/ DecodeCmpi
    \/ Reassemble

SpecCodec == Init /\ [][NextCodec]_vars

(***************************************************************************)
(* Properties                                                              *)
(***************************************************************************)
\* a step that executes an instruction; op' is the instruction
Executes(cls) == stage' = "executed" /\ op'.cls = cls

\* the operand values an instruction resolves in the state it starts from
SrcValue(i) == get_value(i.src, i.size, A)
DestValue(i) == get_value(i.dest, i.size, ResolvedA(i.src, i.size, A))

\* destination minus source, both signed at the instruction's width
SignedDifference(i) == BigSub(get_value_signed(DestValue(i)), get_value_signed(SrcValue(i)))

\* the number of extension bytes an absolute operand takes
AbsoluteBytes(p) == IF p.mode = "AWA" THEN 2 ELSE IF p.mode = "ALA" THEN 4 ELSE 0

\* C1: disassembling the bytes an instruction assembles to gives an
\* instruction of the same family with the same source, destination and width
C1_RoundTrip ==
    stage = "disassembled" =>
        /\ dis.cls = op.cls
        /\ dis.src = op.src
        /\ dis.dest = op.dest
        /\ dis.size = op.size

\* a well-formed CMPI encoding: the tag 00001100, a size code other than 11,
\* a destination field that names a legal mode, then exactly the immediate
\* and the destination's extension words
WellFormedCmpi(b) ==
    /\ Len(b) >= 2
    /\ b[1] = 12
    /\ b[2] \div 64 # 3
    /\ LET mode == (b[2] \div 8) % 8
           reg == b[2] % 8
           imm == IF b[2] \div 64 = 2 THEN 4 ELSE 2
       IN  \/ mode \in {0, 2, 3, 4} /\ Len(b) = 2 + imm
           \/ mode = 7 /\ reg = 0 /\ Len(b) = 2 + imm + 2
           \/ mode = 7 /\ reg = 1 /\ Len(b) = 2 + imm + 4

\* C2: a well-formed CMPI encoding disassembles to an instruction that
\* assembles to the same bytes
C2_CmpiBytesRoundTrip ==
    (stage = "reassembled" /\ dis.cls = "Cmpi" /\ WellFormedCmpi(data)) => out = data

\* C3: twice the word length get_word_length gives for an instruction's text
\* is the number of bytes the instruction assembles to
C3_LengthAgreement ==
    (stage = "assembled" /\ wlen > 0) => wlen * 2 = Len(data)

\* C4: execute moves the program counter by the number of bytes the
\* executed instruction assembles to
C4_PcAdvanceIsEncodedLength ==
    [][(Executes("Cmp") => pc' = pc + Len(Cmp_assemble(op')))
       /\ (Executes("Cmpi") => pc' = pc + Len(Cmpi_assemble(op')))]_vars

\* C5: Cmp.execute sets Negative to (destination - source < 0) and Zero to
\* (destination - source = 0), the operands signed at the instruction's width
C5_CmpNegativeZero ==
    [][Executes("Cmp") =>
          /\ ccr'["N"] = BigIsNeg(SignedDifference(op'))
          /\ ccr'["Z"] = BigIsZero(SignedDifference(op'))]_vars

\* C6: Cmp.execute sets Overflow exactly when source and destination have
\* the same sign bit and the sign bit of destination - source, masked to the
\* width, differs from it
C6_CmpOverflow ==
    [][Executes("Cmp") =>
          ccr'["V"] =
             (/\ get_negative(SrcValue(op')) = get_negative(DestValue(op'))
              /\ get_negative(MemoryValue_sub(DestValue(op'), SrcValue(op')))
                    # get_negative(SrcValue(op')))]_vars

\* the least signed value of a width
MinSigned(size) ==
    IF size = LONG THEN BigHL(0 - 32768, 0)
    ELSE IF size = WORD THEN Big(0 - 32768) ELSE Big(0 - 128)

\* C7: Cmpi.execute sets Overflow whenever the destination is negative, the
\* immediate is not, and destination - immediate lies below the least signed
\* value of the width
C7_CmpiOverflow ==
    [][(/\ Executes("Cmpi")
        /\ get_negative(DestValue(op'))
        /\ ~get_negative(SrcValue(op'))
        /\ BigIsNeg(BigSub(SignedDifference(op'), MinSigned(op'.size))))
       => ccr'["V"] = TRUE]_vars

\* C8: Cmpi.execute sets Carry exactly when the immediate is greater than
\* the destination, both unsigned at the instruction's width
C8_CmpiCarry ==
    [][Executes("Cmpi") =>
          ccr'["C"] = BigIsPos(BigSub(get_value_unsigned(SrcValue(op')),
                                      get_value_unsigned(DestValue(op'))))]_vars

\* CMPI.B #-1,D1 executed with D1 = 2: the immediate 0xFF is above 2
C8_Witness ==
    /\ stage = "executed"
    /\ op = Cmpi_init(<<AssemblyParameter("IMM", Big(0 - 1)),
                        AssemblyParameter("DRD", Big(1))>>, BYTE)
    /\ D[1] = Big(2)
    /\ ccr["C"] = TRUE

\* C9: Cmpi.execute moves the program counter by 2 for the opcode word, 2
\* for a byte or word immediate or 4 for a long one, and 2 or 4 more for an
\* absolute-short or absolute-long destination
C9_CmpiPcAdvance ==
    [][Executes("Cmpi") =>
          /\ pc' = pc + 2 + (IF op'.size = LONG THEN 4 ELSE 2) + AbsoluteBytes(op'.dest)
          /\ (op'.dest.mode = "DRD" /\ op'.size # LONG => pc' = pc + 4)]_vars

\* a long CMPI on an absolute-long destination, executed from 0
C9_Witness ==
    /\ stage = "executed"
    /\ op.cls = "Cmpi"
    /\ op.size = LONG
    /\ op.dest.mode = "ALA"
    /\ pc = 10

\* C10: execute changes no data register, no memory and not the Extend
\* flag, and no address register unless an operand is post-increment or
\* pre-decrement
C10_ExecuteFrame ==
    [][stage' = "executed" =>
          /\ D' = D
          /\ mem' = mem
          /\ ccr'["X"] = ccr["X"]
          /\ ({op'.src.mode, op'.dest.mode} \cap {"ARIPI", "ARIPD"} = {} => A' = A)]_vars

\* an executed instruction on a machine whose register, memory and Extend
\* flag were set, with another flag changed by it
C10_Witness ==
    /\ stage = "executed"
    /\ op.dest.mode \in {"DRD", "ALA"}
    /\ D[1] # Big(0)
    /\ mem[0] # 0
    /\ ccr["X"] = TRUE
    /\ ccr["C"] = TRUE

\* the operand rules of the two families
LegalOperands(o) ==
    /\ o.size \in {BYTE, WORD, LONG}
    /\ o.cls = "Cmp" => o.dest.mode = "DRD"
    /\ o.cls = "Cmpi" => o.src.mode = "IMM" /\ o.dest.mode \notin {"ARD", "IMM"}

\* a CMPI opcode word whose destination field names An or an immediate
IllegalCmpiDestination(b) ==
    /\ Len(b) >= 2
    /\ b[1] = 12
    /\ \/ (b[2] \div 8) % 8 = 1
       \/ (b[2] \div 8) % 8 = 7 /\ b[2] % 8 = 4

\* C11: every instruction object, constructed or decoded, satisfies the
\* operand rules of its family, and decoding a CMPI word whose destination
\* field is An or immediate gives no instruction object
C11_OperandLegality ==
    /\ IsInstruction(op) => LegalOperands(op)
    /\ IsInstruction(dis) => LegalOperands(dis)
    /\ (stage = "decoded" /\ IllegalCmpiDestination(data)) => ~IsInstruction(dis)

\* 0C 09 00 01, CMPI.B #1,A1, was decoded: the constructor's assert failed
C11_Witness ==
    /\ stage = "decoded"
    /\ data = <<12, 9, 0, 1>>
    /\ dis = Error

\* the number of bytes the CMPI encoding that starts with the opcode word of
\* `b` takes: the opcode word, the immediate, the destination's extension
CmpiEncodedLength(b) ==
    LET mode == (b[2] \div 8) % 8
        reg == b[2] % 8
    IN  2 + (IF b[2] \div 64 = 2 THEN 4 ELSE 2)
          + (IF mode = 7 /\ reg = 0 THEN 2 ELSE IF mode = 7 /\ reg = 1 THEN 4 ELSE 0)

\* C12: a decoder given less than the two bytes of an opcode word, or a
\* CMPI opcode word with less than its immediate and destination extension
\* behind it, returns no instruction object
C12_ShortInputRejected ==
    stage = "decoded" =>
        /\ Len(data) < 2 => ~IsInstruction(dis)
        /\ (Len(data) >= 2 /\ data[1] = 12 /\ Len(data) < CmpiEncodedLength(data))
              => ~IsInstruction(dis)

\* the width an opmode field of a CMP word names
OpmodeSize(opmode) == IF opmode = 0 THEN BYTE ELSE IF opmode = 1 THEN WORD ELSE LONG

\* C13: Cmp.disassemble_instruction returns None for a first word whose top
\* four bits are not 1011; for a first word 1011 rrr ooo mmm nnn with opmode
\* ooo of 000, 001 or 010 (and a source field mmm that names a register mode,
\* which needs no extension word) it returns a Cmp of width BYTE, WORD or
\* LONG whose destination is data register rrr
C13_CmpDecodeBySizeField ==
    [][(DecodeCmp /\ Len(data) >= 2) =>
          LET first_word == data[1] * 256 + data[2]
              top == Field(first_word, 12, 4)
              register == Field(first_word, 9, 3)
              opmode == Field(first_word, 6, 3)
              mode == Field(first_word, 3, 3)
          IN  /\ top # 11 => dis' = None
              /\ (top = 11 /\ opmode \in {0, 1, 2} /\ mode <= 4) =>
                    /\ dis'.cls = "Cmp"
                    /\ dis'.size = OpmodeSize(opmode)
                    /\ dis'.dest = AssemblyParameter("DRD", Big(register))]_vars

\* the condition codes an instruction leaves when it starts from the codes
\* `c0`, with the operands of the current state
FlagsFrom(i, c0) ==
    IF i.cls = "Cmp" THEN Cmp_execute_ccr(i, SrcValue(i), DestValue(i), c0)
    ELSE Cmpi_execute_ccr(i, SrcValue(i), DestValue(i), c0)

\* condition codes with Extend left out of the comparison
WithoutExtend(c) == [c EXCEPT !["X"] = FALSE]

\* every value the condition code register can hold
AllConditionCodes == [ConditionStatusCode -> BOOLEAN]

\* C14: the Negative, Zero, Overflow and Carry an execute leaves are those
\* the instruction gives on its operand values from any condition codes
\* whatever: they do not depend on the codes before it
C14_FlagsOverwritten ==
    [][stage' = "executed" =>
          \A c0 \in AllConditionCodes :
             WithoutExtend(ccr') = WithoutExtend(FlagsFrom(op', c0))]_vars

\* CMPI.B #125,D1 with D1 = 0xFFFFFFFC executed at 4, after another
\* instruction: it leaves all four codes clear
C14_Witness ==
    /\ stage = "executed"
    /\ pc = 8
    /\ op = Cmpi_init(<<AssemblyParameter("IMM", Big(125)),
                        AssemblyParameter("DRD", Big(1))>>, BYTE)
    /\ D[1] = BigHL(65535, 65532)
    /\ \A code \in {"N", "Z", "V", "C"} : ccr[code] = FALSE

\* C15: execute moves the program counter by twice the word length that
\* get_word_length gives for the text of the executed instruction
C15_StaticLengthIsExecutedLength ==
    [][/\ Executes("Cmp") =>
             \A command \in CommandsOf("Cmp", op'.size) :
                pc' - pc = 2 * Cmp_get_word_length(command, <<op'.src, op'.dest>>)
       /\ Executes("Cmpi") =>
             \A command \in CommandsOf("Cmpi", op'.size) :
                pc' - pc = 2 * Cmpi_get_word_length(command, <<op'.src, op'.dest>>)]_vars

====
